---- MODULE Spec2Model ----
(***************************************************************************)
(* Model of tb_device_http.py: the ThingsBoard HTTP device client.         *)
(*                                                                         *)
(* Two specifications share the module's variables:                        *)
(*   Spec       the long-poll subscriptions: the caller's subscribe and    *)
(*              unsubscribe calls interleaved with the steps of the        *)
(*              background threads (lines 110-182);                        *)
(*   SpecPlain  the synchronous operations: publish_data, get_data and     *)
(*              the operations delegating to them, and provision           *)
(*              (lines 42-108, 184-204).                                   *)
(***************************************************************************)
EXTENDS Integers, Sequences, FiniteSets, TLC

\* ------------------------------------------------------------------ bounds
\* Events of one behaviour that come from outside the loops: the caller's
\* subscribe and unsubscribe calls and the long-poll GETs, all together.
MaxEvents == 4

\* --------------------------------------------------------------- constants
Kinds == {"attributes", "rpc"}

\* timeout argument of subscribe_to_*: <<>> is None, <<n>> the integer n.
Timeouts == {<<>>, <<0>>, <<5>>}

\* Status codes a long-poll GET may answer with.
PollStatuses == {200, 408, 500, 504}

Threads == 1..MaxEvents

VARIABLES
  event,      \* subscriptions[k]['event']: the flag of the threading.Event
  threadRef,  \* subscriptions[k]['thread']: thread id, 0 while the key is absent
  nthreads,   \* number of threads created so far
  pc,         \* position of each thread in subscription()
  kindOf,     \* the kind whose subscription() a thread runs
  timeoutOf,  \* the timeout argument captured by the thread's closure
  resp,       \* the thread's local `response`, while the loop body reads it
  issued,     \* long-poll GETs issued so far, all loops together
  unsubs,     \* unsubscribe calls made so far
  how,        \* what the loop body did with the thread's last response
  cblog,      \* per kind: the callback invocations, in invocation order
  stopReq,    \* history: unsubscribe was called while the thread was running
  last        \* the last synchronous call: operation, request, outcome

vars == <<event, threadRef, nthreads, pc, kindOf, timeoutOf, resp, issued,
          unsubs, how, cblog, stopReq, last>>

\* ---------------------------------------------------------------- helpers
\* A test for `timeout is not None` in place of Python truthiness.
TruthyNotNone(to) == to # <<>>

\* Python truthiness of the timeout argument: None and 0 are falsy.
Truthy(to) == to # <<>> /\ to[1] # 0

\* params = {'timeout': timeout} if timeout else {}
Params(to) == IF Truthy(to) THEN [timeout |-> to[1]] ELSE <<>>

\* requests' Response.raise_for_status(): HTTPError for 400 <= status < 600.
RaiseForStatus(status) ==
  IF 400 <= status /\ status < 600 THEN "HTTPError" ELSE "none"

\* A thread whose subscription() has been started and has not returned or died.
Running(t) == pc[t] \notin {"none", "done", "dead"}

RunningOf(k) == {t \in Threads : Running(t) /\ kindOf[t] = k}

\* Responses received so far: every issued GET but those still in flight.
Received == issued - Cardinality({t \in Threads : pc[t] = "wait"})

NoResp == [status |-> 0, seq |-> 0, late |-> FALSE]

NoCall == [op |-> "none"]

\* The events counted against MaxEvents.
Events == nthreads + unsubs + issued

\* ------------------------------------------------------------------- Init
Init ==
  /\ event = [k \in Kinds |-> FALSE]
  /\ threadRef = [k \in Kinds |-> 0]
  /\ nthreads = 0
  /\ pc = [t \in Threads |-> "none"]
  /\ kindOf = [t \in Threads |-> "attributes"]
  /\ timeoutOf = [t \in Threads |-> <<>>]
  /\ resp = [t \in Threads |-> NoResp]
  /\ issued = 0
  /\ unsubs = 0
  /\ how = [t \in Threads |-> "none"]
  /\ cblog = [k \in Kinds |-> <<>>]
  /\ stopReq = [t \in Threads |-> FALSE]
  /\ last = NoCall

\* ------------------------------------------------- subscribe / unsubscribe
\* subscribe with the thread built from the attributes closure whatever the
\* kind asked for (the two methods are copies of one another).
SubscribeWrongTarget(k, to) ==
  /\ Events < MaxEvents
  /\ LET t == nthreads + 1 IN
       /\ nthreads' = t
       /\ threadRef' = [threadRef EXCEPT ![k] = t]
       /\ pc' = [pc EXCEPT ![t] = "clear"]
       /\ kindOf' = [kindOf EXCEPT ![t] = "attributes"]
       /\ timeoutOf' = [timeoutOf EXCEPT ![t] = to]
  /\ UNCHANGED <<event, resp, issued, how, cblog, stopReq, unsubs, last>>

\* subscribe starting its thread without storing it under the kind.
SubscribeNoStore(k, to) ==
  /\ Events < MaxEvents
  /\ LET t == nthreads + 1 IN
       /\ nthreads' = t
       /\ pc' = [pc EXCEPT ![t] = "clear"]
       /\ kindOf' = [kindOf EXCEPT ![t] = k]
       /\ timeoutOf' = [timeoutOf EXCEPT ![t] = to]
  /\ UNCHANGED <<event, threadRef, resp, issued, how, cblog, stopReq, unsubs,
                 last>>

\* subscribe_to_attributes / subscribe_to_rpc: build the closure, store a new
\* Thread under subscriptions[k]['thread'] and start it.  Nothing else: the
\* Event is not touched here.
Subscribe(k, to) ==
  /\ Events < MaxEvents
  /\ LET t == nthreads + 1 IN
       /\ nthreads' = t
       /\ threadRef' = [threadRef EXCEPT ![k] = t]
       /\ pc' = [pc EXCEPT ![t] = "clear"]
       /\ kindOf' = [kindOf EXCEPT ![t] = k]
       /\ timeoutOf' = [timeoutOf EXCEPT ![t] = to]
  /\ UNCHANGED <<event, resp, issued, how, cblog, stopReq, unsubs, last>>

\* An unsubscribe that sets the Event of every kind.
UnsubscribeAll(k) ==
  /\ Events < MaxEvents
  /\ unsubs' = unsubs + 1
  /\ event' = [j \in Kinds |-> TRUE]
  /\ stopReq' = [t \in Threads |-> stopReq[t] \/ t \in RunningOf(k)]
  /\ UNCHANGED <<threadRef, nthreads, pc, kindOf, timeoutOf, resp, issued,
                 how, cblog, last>>

\* unsubscribe_from_attributes / unsubscribe_from_rpc: event.set().
Unsubscribe(k) ==
  /\ Events < MaxEvents
  /\ unsubs' = unsubs + 1
  /\ event' = [event EXCEPT ![k] = TRUE]
  /\ stopReq' = [t \in Threads |-> stopReq[t] \/ t \in RunningOf(k)]
  /\ UNCHANGED <<threadRef, nthreads, pc, kindOf, timeoutOf, resp, issued,
                 how, cblog, last>>

\* ------------------------------------------------------- subscription()
\* subscription() without its opening event.clear().
LoopStartNoClear(t) ==
  /\ pc[t] = "clear"
  /\ pc' = [pc EXCEPT ![t] = "get"]
  /\ UNCHANGED <<event, threadRef, nthreads, kindOf, timeoutOf, resp, issued,
                 how, cblog, stopReq, unsubs, last>>

\* First statement of subscription(): event.clear().
LoopStart(t) ==
  /\ pc[t] = "clear"
  /\ event' = [event EXCEPT ![kindOf[t]] = FALSE]
  /\ pc' = [pc EXCEPT ![t] = "get"]
  /\ UNCHANGED <<threadRef, nthreads, kindOf, timeoutOf, resp, issued, how,
                 cblog, stopReq, unsubs, last>>

\* Top of `while True`: session.get(...) is called and blocks.
IssueGet(t) ==
  /\ pc[t] = "get"
  /\ Events < MaxEvents
  /\ issued' = issued + 1
  /\ pc' = [pc EXCEPT ![t] = "wait"]
  /\ how' = [how EXCEPT ![t] = "none"]
  /\ UNCHANGED <<event, threadRef, nthreads, kindOf, timeoutOf, resp, cblog,
                 stopReq, unsubs, last>>

\* session.get(...) returns a response with status s; seq numbers the
\* responses in the order they are received.
Receive(t, s) ==
  /\ pc[t] = "wait"
  /\ resp' = [resp EXCEPT ![t] = [status |-> s, seq |-> Received + 1,
                                  late |-> stopReq[t]]]
  /\ pc' = [pc EXCEPT ![t] = "check"]
  /\ UNCHANGED <<event, threadRef, nthreads, kindOf, timeoutOf, issued, how,
                 cblog, stopReq, unsubs, last>>

\* Dispatch without the 504 branch: a gateway timeout reaches raise_for_status.
DispatchNo504(stop, status, to) ==
  IF stop THEN "stop"
  ELSE IF status = 408 /\ Truthy(to) THEN "timeout"
  ELSE IF RaiseForStatus(status) # "none" THEN RaiseForStatus(status)
  ELSE "callback"

\* Dispatch without the 408 branch: a request timeout reaches raise_for_status.
DispatchNo408(stop, status, to) ==
  IF stop THEN "stop"
  ELSE IF status = 504 THEN "retry"
  ELSE IF RaiseForStatus(status) # "none" THEN RaiseForStatus(status)
  ELSE "callback"

\* Dispatch with the stop check moved behind the status handling.
DispatchStopLast(stop, status, to) ==
  IF status = 408 /\ Truthy(to) THEN "timeout"
  ELSE IF status = 504 THEN "retry"
  ELSE IF RaiseForStatus(status) # "none" THEN RaiseForStatus(status)
  ELSE IF stop THEN "stop"
  ELSE "callback"

\* What the loop body does with the response once session.get has returned.
Dispatch(stop, status, to) ==
  IF stop THEN "stop"
  ELSE IF status = 408 /\ Truthy(to) THEN "timeout"
  ELSE IF status = 504 THEN "retry"
  ELSE IF RaiseForStatus(status) # "none" THEN RaiseForStatus(status)
  ELSE "callback"

\* Target with the exceptions swallowed: an error goes back to the GET.
TargetErrorContinues(d) ==
  CASE d \in {"stop", "timeout"} -> "exit"
    [] d = "callback"            -> "callback"
    [] OTHER                     -> "get"

\* Where the loop body goes after each decision of Dispatch.
Target(d) ==
  CASE d \in {"stop", "timeout"} -> "exit"
    [] d = "retry"               -> "get"
    [] d = "callback"            -> "callback"
    [] OTHER                     -> "dead"

\* The callback's argument were `response` kept in the kind's shared record
\* instead of a local of subscription(): the newest response of the kind.
CallbackArgShared(t) ==
  LET S == {resp[u].seq : u \in {u \in Threads : kindOf[u] = kindOf[t]}} IN
    CHOOSE n \in S : \A m \in S : m <= n

\* The value handed to the callback: the thread's own local response.
CallbackArg(t) == resp[t].seq

\* The loop body from the stop check to the call of the callback.
HandleResponse(t) ==
  /\ pc[t] = "check"
  /\ LET k == kindOf[t]
         d == Dispatch(event[k], resp[t].status, timeoutOf[t]) IN
       /\ pc' = [pc EXCEPT ![t] = Target(d)]
       /\ how' = [how EXCEPT ![t] = d]
       /\ cblog' = [cblog EXCEPT ![k] =
                    IF d = "callback"
                    THEN Append(@, [thread |-> t, seq |-> CallbackArg(t)])
                    ELSE @]
       /\ resp' = [resp EXCEPT ![t] = IF d = "retry" THEN NoResp ELSE @]
  /\ UNCHANGED <<event, threadRef, nthreads, kindOf, timeoutOf, issued,
                 stopReq, unsubs, last>>

\* The callback returns: back to the top of the loop.
CallbackReturn(t) ==
  /\ pc[t] = "callback"
  /\ pc' = [pc EXCEPT ![t] = "get"]
  /\ resp' = [resp EXCEPT ![t] = NoResp]
  /\ UNCHANGED <<event, threadRef, nthreads, kindOf, timeoutOf, issued, how,
                 cblog, stopReq, unsubs, last>>

\* The callback raises: the exception leaves subscription() and ends the thread.
CallbackRaise(t) ==
  /\ pc[t] = "callback"
  /\ pc' = [pc EXCEPT ![t] = "dead"]
  /\ how' = [how EXCEPT ![t] = "CallbackError"]
  /\ resp' = [resp EXCEPT ![t] = NoResp]
  /\ UNCHANGED <<event, threadRef, nthreads, kindOf, timeoutOf, issued, cblog,
                 stopReq, unsubs, last>>

\* subscription() returning after the loop without its closing event.clear().
LoopExitNoClear(t) ==
  /\ pc[t] = "exit"
  /\ pc' = [pc EXCEPT ![t] = "done"]
  /\ UNCHANGED <<event, threadRef, nthreads, kindOf, timeoutOf, resp, issued,
                 how, cblog, stopReq, unsubs, last>>

\* After the loop: event.clear(), then subscription() returns.
LoopExit(t) ==
  /\ pc[t] = "exit"
  /\ event' = [event EXCEPT ![kindOf[t]] = FALSE]
  /\ pc' = [pc EXCEPT ![t] = "done"]
  /\ UNCHANGED <<threadRef, nthreads, kindOf, timeoutOf, resp, issued, how,
                 cblog, stopReq, unsubs, last>>

\* ====================================================== synchronous calls
\* Status codes a plain request may be answered with.
PlainStatuses == {200, 404, 504}

\* A JSON text is a sequence of tokens; these are the punctuation tokens.
Punct == {"{", "}", ":", ","}

\* An empty Python dict / JSON object.
EmptyDict == <<>>

\* Response bodies of the plain endpoints: empty, objects, and broken texts.
PlainBodies ==
  { <<>>,
    <<"{", "}">>,
    <<"{", "a", ":", "1", "}">>,
    <<"{", "a", ":", "1", ",", "a", ":", "2", "}">>,
    <<"{", "a", ":", "1", ",", "b", ":", "2", "}">>,
    <<"{", "a", ":">> }

PlainResponses == [status : PlainStatuses, body : PlainBodies]

\* json.loads on the members of an object: key ":" value, then "," or "}".
\* A repeated key keeps the last value, as Python's dict does.
RECURSIVE Members(_, _, _)
Members(b, i, acc) ==
  IF i + 3 > Len(b) \/ b[i] \in Punct \/ b[i + 1] # ":" \/ b[i + 2] \in Punct
  THEN [ok |-> FALSE, val |-> EmptyDict]
  ELSE LET acc2 == (b[i] :> b[i + 2]) @@ acc IN
       IF b[i + 3] = "}" /\ i + 3 = Len(b) THEN [ok |-> TRUE, val |-> acc2]
       ELSE IF b[i + 3] = "," THEN Members(b, i + 4, acc2)
       ELSE [ok |-> FALSE, val |-> EmptyDict]

\* Response.json(): the decoded object, or a decode error.
Json(b) ==
  IF Len(b) < 2 \/ b[1] # "{" THEN [ok |-> FALSE, val |-> EmptyDict]
  ELSE IF Len(b) = 2 THEN [ok |-> b[2] = "}", val |-> EmptyDict]
  ELSE Members(b, 2, EmptyDict)

\* The outcome of a call: the exception it raised ("none" when it returned),
\* the exception's argument, and the value returned.
Returned(v) == [exc |-> "none", arg |-> <<>>, ret |-> v]
Raised(e, a) == [exc |-> e, arg |-> a, ret |-> <<>>]

\* The exception classes of the module and of requests, with their bases.
Bases(e) ==
  CASE e = "TBProvisionFailure" -> {"TBProvisionFailure", "TBHTTPAPIException"}
    [] e = "none"               -> {}
    [] OTHER                    -> {e}

\* return response.json()
DecodeOutcome(b) ==
  IF Json(b).ok THEN Returned(Json(b).val) ELSE Raised("JSONDecodeError", <<>>)

\* The body decoded whether or not it is empty.
DecodeAlways(b) == DecodeOutcome(b)

\* return response.json() if response.content else {}
DecodeOrEmpty(b) == IF b # <<>> THEN DecodeOutcome(b) ELSE Returned(EmptyDict)

\* publish_data: POST, raise_for_status, decode the body unless it is empty.
publish_data(r) ==
  IF RaiseForStatus(r.status) # "none"
  THEN Raised(RaiseForStatus(r.status), <<r.status>>)
  ELSE DecodeOrEmpty(r.body)

\* get_data: GET, raise_for_status, decode the body.
get_data(r) ==
  IF RaiseForStatus(r.status) # "none"
  THEN Raised(RaiseForStatus(r.status), <<r.status>>)
  ELSE DecodeOutcome(r.body)

\* Payload dictionaries handed to the publishing operations.
Dicts == {EmptyDict, [temperature |-> 21]}

Endpoints == {"telemetry", "attributes", "rpc"}

\* A datetime: `wall` is what its own clock reads, in ticks of 100 microseconds
\* since 1970-01-01 00:00:00; `tz` is <<>> for a naive datetime and <<offset>>,
\* the utcoffset in ticks, for an aware one.  One hour is 36000000 ticks.
Walls == {-36000015, -15, -5, 0, 5, 15, 36000015}
Offsets == {<<>>, <<0>>, <<36000000>>, <<-36000000>>}
Datetimes == [wall : Walls, tz : Offsets]

\* The timestamp argument of send_telemetry: <<>> is None, <<dt>> a datetime.
TimestampArgs == {<<>>} \cup {<<dt>> : dt \in Datetimes}

\* datetime.replace(tzinfo=timezone.utc): the clock reading is kept, the zone
\* is set to UTC.
ReplaceTzUtc(dt) == [wall |-> dt.wall, tz |-> <<0>>]

\* datetime.timestamp() of an aware datetime, in ticks: the instant on the UTC
\* time line.
TimestampTicks(dt) == dt.wall - dt.tz[1]

\* int(x): truncation toward zero, here of ticks / 10 (seconds * 1000).
IntMillis(ticks) == IF ticks >= 0 THEN ticks \div 10 ELSE -((-ticks) \div 10)

\* The payload send_telemetry hands to publish_data.
TelemetryPayload(telemetry, timestamp) ==
  IF timestamp # <<>>
  THEN [ts |-> IntMillis(TimestampTicks(ReplaceTzUtc(timestamp[1]))),
        values |-> telemetry]
  ELSE telemetry

\* What a call leaves behind: the operation, its arguments, the request sent
\* (method, endpoint, json body or params), the response, and the outcome.
Call(op, args, method, endpoint, payload, r, out) ==
  [op |-> op, args |-> args, method |-> method, endpoint |-> endpoint,
   payload |-> payload, response |-> r, out |-> out]

\* A call that returns nothing: the value returned is dropped, an exception
\* is passed on.
Dropped(out) == IF out.exc = "none" THEN Returned(<<>>) ELSE out

PublishData(d, e, r) ==
  /\ last' = Call("publish_data", <<d, e>>, "POST", e, d, r, publish_data(r))
  /\ UNCHANGED <<event, threadRef, nthreads, pc, kindOf, timeoutOf, resp,
                 issued, unsubs, how, cblog, stopReq>>

GetData(params, e, r) ==
  /\ last' = Call("get_data", <<params, e>>, "GET", e, params, r, get_data(r))
  /\ UNCHANGED <<event, threadRef, nthreads, pc, kindOf, timeoutOf, resp,
                 issued, unsubs, how, cblog, stopReq>>

\* connect: publish_data({}, 'telemetry'), result dropped.
Connect(r) ==
  /\ last' = Call("connect", <<>>, "POST", "telemetry", EmptyDict, r,
                  Dropped(publish_data(r)))
  /\ UNCHANGED <<event, threadRef, nthreads, pc, kindOf, timeoutOf, resp,
                 issued, unsubs, how, cblog, stopReq>>

SendTelemetry(telemetry, timestamp, r) ==
  /\ last' = Call("send_telemetry", <<telemetry, timestamp>>, "POST",
                  "telemetry", TelemetryPayload(telemetry, timestamp), r,
                  Dropped(publish_data(r)))
  /\ UNCHANGED <<event, threadRef, nthreads, pc, kindOf, timeoutOf, resp,
                 issued, unsubs, how, cblog, stopReq>>

SendAttributes(attributes, r) ==
  /\ last' = Call("send_attributes", <<attributes>>, "POST", "attributes",
                  attributes, r, Dropped(publish_data(r)))
  /\ UNCHANGED <<event, threadRef, nthreads, pc, kindOf, timeoutOf, resp,
                 issued, unsubs, how, cblog, stopReq>>

\* send_rpc: params is <<>> for None, <<d>> for a dict; `params or {}`.
SendRpc(name, params, r) ==
  /\ last' = Call("send_rpc", <<name, params>>, "POST", "rpc",
                  [method |-> name,
                   params |-> IF params # <<>> /\ params[1] # EmptyDict
                              THEN params[1] ELSE EmptyDict],
                  r, publish_data(r))
  /\ UNCHANGED <<event, threadRef, nthreads, pc, kindOf, timeoutOf, resp,
                 issued, unsubs, how, cblog, stopReq>>

\* request_attributes: keys are <<>> for None, <<list>> for a list.
RequestAttributes(ck, sk, r) ==
  /\ last' = Call("request_attributes", <<ck, sk>>, "GET", "attributes",
                  [client_keys |-> ck, shared_keys |-> sk], r, get_data(r))
  /\ UNCHANGED <<event, threadRef, nthreads, pc, kindOf, timeoutOf, resp,
                 issued, unsubs, how, cblog, stopReq>>

\* ----------------------------------------------------------- provision
\* The JSON text of an object with the given members, in order.
RECURSIVE ObjectText(_)
ObjectText(members) ==
  IF members = <<>> THEN <<"{", "}">>
  ELSE IF Len(members) = 1
       THEN <<"{", members[1][1], ":", members[1][2], "}">>
       ELSE <<"{", members[1][1], ":", members[1][2], ",">>
            \o Tail(ObjectText(Tail(members)))

ProvisionStatuses == {"SUCCESS", "FAILURE", "NOT_FOUND"}
CredentialsTypes == {"ACCESS_TOKEN", "MQTT_BASIC", "X509_CERTIFICATE"}
CredentialsValues == {"tokA", "tokB"}

\* Bodies the provisioning endpoint may answer with: every combination of the
\* three fields, answers lacking some of them, and an empty body.
ProvisionBodies ==
  { ObjectText(<< <<"status", st>>, <<"credentialsType", ct>>,
                  <<"credentialsValue", cv>> >>) :
      st \in ProvisionStatuses, ct \in CredentialsTypes,
      cv \in CredentialsValues }
  \cup { ObjectText(<< <<"status", st>> >>) : st \in ProvisionStatuses }
  \cup { ObjectText(<< <<"status", "SUCCESS">>,
                       <<"credentialsType", ct>> >>) : ct \in CredentialsTypes }
  \cup { ObjectText(<< <<"credentialsType", "ACCESS_TOKEN">>,
                       <<"credentialsValue", "tokA">> >>),
         ObjectText(<<>>), <<>> }

ProvisionResponses == [status : {200, 500}, body : ProvisionBodies]

\* TBHTTPClient.__init__: the fields the constructor sets from its arguments.
NewClient(host, token, name) == [host |-> host, token |-> token, name |-> name]

\* The check of provision with `or` in place of `and`.
ProvisionDeviceOr(host, device_name, device) ==
  IF "status" \notin DOMAIN device THEN Raised("KeyError", <<"status">>)
  ELSE IF device["status"] # "SUCCESS"
          /\ "credentialsType" \notin DOMAIN device
       THEN Raised("KeyError", <<"credentialsType">>)
  ELSE IF device["status"] # "SUCCESS"
          /\ device["credentialsType"] # "ACCESS_TOKEN"
       THEN Raised("TBProvisionFailure", <<device>>)
  ELSE IF "credentialsValue" \notin DOMAIN device
       THEN Raised("KeyError", <<"credentialsValue">>)
  ELSE Returned(NewClient(host, device["credentialsValue"], device_name))

\* The part of provision after device = response.json().
ProvisionDevice(host, device_name, device) ==
  IF "status" \notin DOMAIN device THEN Raised("KeyError", <<"status">>)
  ELSE IF device["status"] # "SUCCESS"
       THEN Raised("TBProvisionFailure", <<device>>)
  ELSE IF "credentialsType" \notin DOMAIN device
       THEN Raised("KeyError", <<"credentialsType">>)
  ELSE IF device["credentialsType"] # "ACCESS_TOKEN"
       THEN Raised("TBProvisionFailure", <<device>>)
  ELSE IF "credentialsValue" \notin DOMAIN device
       THEN Raised("KeyError", <<"credentialsValue">>)
  ELSE Returned(NewClient(host, device["credentialsValue"], device_name))

\* provision: POST, raise_for_status, decode, then ProvisionDevice.
provision(host, device_name, r) ==
  IF RaiseForStatus(r.status) # "none"
  THEN Raised(RaiseForStatus(r.status), <<r.status>>)
  ELSE IF ~Json(r.body).ok THEN Raised("JSONDecodeError", <<>>)
  ELSE ProvisionDevice(host, device_name, Json(r.body).val)

Provision(host, device_name, r) ==
  /\ last' = Call("provision", <<host, device_name>>, "POST", "provision",
                  [deviceName |-> device_name, provisionDeviceKey |-> "key",
                   provisionDeviceSecret |-> "secret"],
                  r, provision(host, device_name, r))
  /\ UNCHANGED <<event, threadRef, nthreads, pc, kindOf, timeoutOf, resp,
                 issued, unsubs, how, cblog, stopReq>>

NextPlain ==
  \/ \E d \in Dicts, e \in Endpoints, r \in PlainResponses : PublishData(d, e, r)
  \/ \E e \in Endpoints, r \in PlainResponses : GetData(EmptyDict, e, r)
  \/ \E r \in PlainResponses : Connect(r)
  \/ \E t \in Dicts, ts \in TimestampArgs, r \in PlainResponses :
       SendTelemetry(t, ts, r)
  \/ \E a \in Dicts, r \in PlainResponses : SendAttributes(a, r)
  \/ \E params \in {<<>>} \cup {<<d>> : d \in Dicts}, r \in PlainResponses :
       SendRpc("getTime", params, r)
  \/ \E ck \in {<<>>, <<"a">>}, sk \in {<<>>, <<"b">>}, r \in PlainResponses :
       RequestAttributes(ck, sk, r)
  \/ \E name \in {"dev1", "dev2"}, r \in ProvisionResponses :
       Provision("http://tb", name, r)

SpecPlain == Init /\ [][NextPlain]_vars

Next ==
  \/ \E k \in Kinds, to \in Timeouts : Subscribe(k, to)
  \/ \E k \in Kinds : Unsubscribe(k)
  \/ \E t \in Threads : LoopStart(t)
  \/ \E t \in Threads : IssueGet(t)
  \/ \E t \in Threads, s \in PollStatuses : Receive(t, s)
  \/ \E t \in Threads : HandleResponse(t)
  \/ \E t \in Threads : CallbackReturn(t)
  \/ \E t \in Threads : CallbackRaise(t)
  \/ \E t \in Threads : LoopExit(t)

Spec == Init /\ [][Next]_vars

\* A caller that subscribes to a kind only when no loop of that kind is
\* running, i.e. when every thread started for the kind has finished.
SubscribeWhenIdle(k, to) ==
  /\ RunningOf(k) = {}
  /\ Subscribe(k, to)

NextWhenIdle ==
  \/ \E k \in Kinds, to \in Timeouts : SubscribeWhenIdle(k, to)
  \/ \E k \in Kinds : Unsubscribe(k)
  \/ \E t \in Threads : LoopStart(t)
  \/ \E t \in Threads : IssueGet(t)
  \/ \E t \in Threads, s \in PollStatuses : Receive(t, s)
  \/ \E t \in Threads : HandleResponse(t)
  \/ \E t \in Threads : CallbackReturn(t)
  \/ \E t \in Threads : CallbackRaise(t)
  \/ \E t \in Threads : LoopExit(t)

SpecWhenIdle == Init /\ [][NextWhenIdle]_vars

\* ==================================================================
\* Properties
\* ==================================================================

\* ---- C1 ----------------------------------------------------------
\* C1: once unsubscribe has been called for a kind while a loop of that
\* kind is running, the first response that loop receives afterwards ends
\* it: the loop body leaves by break, and the callback is not invoked for
\* that response.
C1_UnsubscribeStopsLoop ==
  [][\A t \in Threads :
       (pc[t] = "check" /\ resp[t].late /\ pc'[t] # "check")
         => pc'[t] = "exit"]_vars

\* ---- C2 ----------------------------------------------------------
\* C2: in every reachable state at most one loop thread per kind is running.
C2_AtMostOneLoopPerKind ==
  \A k \in Kinds : Cardinality(RunningOf(k)) <= 1

\* C2 (amended): the number of running loops of a kind rises above one only
\* by a subscribe call for that kind made while a loop of that kind is still
\* running; no other step adds a running loop.
C2_SecondLoopOnlyByOverlappingSubscribe ==
  [][\A k \in Kinds :
       (/\ Cardinality(RunningOf(k)') > 1
        /\ Cardinality(RunningOf(k)') > Cardinality(RunningOf(k)))
         => (/\ nthreads' = nthreads + 1
             /\ threadRef'[k] = nthreads'
             /\ RunningOf(k) # {})]_vars

\* A kind whose first loop has ended and whose second loop runs alone.
C2_Witness ==
  \E k \in Kinds, t, u \in Threads :
    /\ t < u /\ kindOf[t] = k /\ kindOf[u] = k
    /\ pc[t] = "done" /\ Running(u) /\ threadRef[k] = u
    /\ RunningOf(k) = {u}

\* ---- C3 ----------------------------------------------------------
\* C3: a loop that reads a 504 response with the stop signal clear invokes no
\* callback, raises nothing and does not leave the loop: it goes back to the
\* top of the loop, and its next step is the next long-poll GET.
C3_Retry504 ==
  [][\A t \in Threads :
       /\ (pc[t] = "check" /\ resp[t].status = 504 /\ ~event[kindOf[t]]
           /\ pc'[t] # "check")
            => (pc'[t] = "get" /\ how'[t] = "retry" /\ cblog' = cblog)
       /\ (pc[t] = "get" /\ how[t] = "retry" /\ pc'[t] # "get")
            => (pc'[t] = "wait" /\ issued' = issued + 1 /\ cblog' = cblog)]_vars

\* A single loop that has answered two 504 responses in a row by a retry.
C3_Witness ==
  \E t \in Threads :
    /\ nthreads = 1 /\ pc[t] = "get" /\ how[t] = "retry"
    /\ issued = 2 /\ unsubs = 0 /\ cblog[kindOf[t]] = <<>>

\* ---- C4 ----------------------------------------------------------
\* C4: a loop subscribed with a timeout argument (any value) that reads a
\* 408 response leaves the loop by break: no callback, no exception.
C4_Timeout408Breaks ==
  [][\A t \in Threads :
       (pc[t] = "check" /\ resp[t].status = 408 /\ timeoutOf[t] # <<>>
        /\ pc'[t] # "check")
         => (pc'[t] = "exit" /\ cblog' = cblog)]_vars

\* C4 (amended): the same for every timeout argument that is truthy, that
\* is, neither None nor 0.
C4_TruthyTimeout408Breaks ==
  [][\A t \in Threads :
       (pc[t] = "check" /\ resp[t].status = 408
        /\ timeoutOf[t] # <<>> /\ timeoutOf[t] # <<0>>
        /\ pc'[t] # "check")
         => (pc'[t] = "exit" /\ cblog' = cblog)]_vars

\* A loop with timeout 5 that left by break on a 408, the stop signal clear.
C4_Witness ==
  \E t \in Threads :
    /\ pc[t] = "exit" /\ how[t] = "timeout" /\ timeoutOf[t] = <<5>>
    /\ ~event[kindOf[t]] /\ cblog[kindOf[t]] = <<>>

\* ---- C5 ----------------------------------------------------------
\* C5: a synchronous call answered with a status in [400,600) fails with
\* TBHTTPAPIException (or a subclass) carrying that status, and returns
\* nothing.
C5_ErrorStatusRaisesTBHTTPAPIException ==
  (last.op # "none" /\ 400 <= last.response.status
                    /\ last.response.status < 600)
    => (/\ "TBHTTPAPIException" \in Bases(last.out.exc)
        /\ last.out.arg = <<last.response.status>>
        /\ last.out.ret = <<>>)

\* ---- C6 ----------------------------------------------------------
\* The positions of the callback log of kind k.
LogIdx(k) == 1..Len(cblog[k])

\* C6: for one kind, callbacks run in the order the responses were received
\* and no two callback invocations of the kind overlap.
C6_KindCallbacksOrdered ==
  \A k \in Kinds :
    /\ Cardinality({t \in Threads : kindOf[t] = k /\ pc[t] = "callback"}) <= 1
    /\ \A i, j \in LogIdx(k) : i < j => cblog[k][i].seq < cblog[k][j].seq

\* C6 (amended): for one loop thread, callbacks run in the order that loop
\* received its responses, each for the response the loop has just read, and
\* the loop issues no GET while its callback runs.
C6_LoopCallbacksOrdered ==
  /\ \A k \in Kinds : \A i, j \in LogIdx(k) :
       (i < j /\ cblog[k][i].thread = cblog[k][j].thread)
         => cblog[k][i].seq < cblog[k][j].seq
  /\ \A t \in Threads : pc[t] = "callback" =>
       LET k == kindOf[t]
           mine == {i \in LogIdx(k) : cblog[k][i].thread = t} IN
         /\ mine # {}
         /\ \E i \in mine : /\ \A j \in mine : j <= i
                            /\ cblog[k][i].seq = resp[t].seq

\* One loop has invoked the callback twice.
C6_Witness ==
  \E k \in Kinds :
    /\ Len(cblog[k]) >= 2
    /\ cblog[k][1].thread = cblog[k][2].thread

\* ---- C7 ----------------------------------------------------------
\* The decoded body of the last call's response.
LastDevice == Json(last.response.body).val

\* C7: provision returns a client exactly when the exchange succeeded and the
\* body has status SUCCESS and credentialsType ACCESS_TOKEN, and the client's
\* token is then the body's credentialsValue; for every other combination of
\* status and credentialsType it raises TBProvisionFailure carrying the
\* whole body and constructs no client.
C7_Provision ==
  last.op = "provision" =>
    /\ last.out.exc = "none" =>
         /\ RaiseForStatus(last.response.status) = "none"
         /\ LastDevice["status"] = "SUCCESS"
         /\ LastDevice["credentialsType"] = "ACCESS_TOKEN"
         /\ last.out.ret.token = LastDevice["credentialsValue"]
    /\ (/\ RaiseForStatus(last.response.status) = "none"
        /\ Json(last.response.body).ok
        /\ {"status", "credentialsType", "credentialsValue"}
             \subseteq DOMAIN LastDevice)
         => IF /\ LastDevice["status"] = "SUCCESS"
               /\ LastDevice["credentialsType"] = "ACCESS_TOKEN"
            THEN /\ last.out.exc = "none"
                 /\ last.out.ret.token = LastDevice["credentialsValue"]
            ELSE /\ last.out.exc = "TBProvisionFailure"
                 /\ last.out.arg = <<LastDevice>>
                 /\ last.out.ret = <<>>

\* provision refused a body with status SUCCESS and another credentialsType.
C7_Witness ==
  /\ last.op = "provision"
  /\ last.out.exc = "TBProvisionFailure"
  /\ last.response.body =
       ObjectText(<< <<"status", "SUCCESS">>,
                     <<"credentialsType", "MQTT_BASIC">>,
                     <<"credentialsValue", "tokB">> >>)

\* ---- C8 ----------------------------------------------------------
\* The instant a datetime denotes, in ticks since the epoch on the UTC time
\* line; a naive datetime is read as UTC.
UtcEpochTicks(dt) == IF dt.tz = <<>> THEN dt.wall ELSE dt.wall - dt.tz[1]

\* C8: send_telemetry(t, timestamp=T) posts {ts: floor(UTC epoch seconds of
\* T * 1000), values: t} to 'telemetry'; without a timestamp it posts t.
C8_TelemetryPayload ==
  last.op = "send_telemetry" =>
    /\ last.endpoint = "telemetry"
    /\ LET t == last.args[1]
           T == last.args[2] IN
         IF T = <<>> THEN last.payload = t
         ELSE last.payload = [ts |-> UtcEpochTicks(T[1]) \div 10, values |-> t]

\* ---- C9 ----------------------------------------------------------
\* C9: on a successful response publish_data returns the decoded body when
\* the body is not empty and an empty mapping, without a decode error, when
\* it is empty; get_data decodes the body in every case, so that an empty
\* body is a decode error.
C9_EmptyBodyTolerance ==
  (last.op \in {"publish_data", "get_data"}
   /\ RaiseForStatus(last.response.status) = "none") =>
    LET b == last.response.body IN
      /\ (last.op = "publish_data" /\ b = <<>>)
           => (last.out.exc = "none" /\ last.out.ret = EmptyDict)
      /\ (last.op = "get_data" /\ b = <<>>)
           => last.out.exc = "JSONDecodeError"
      /\ (b # <<>> /\ Json(b).ok)
           => (last.out.exc = "none" /\ last.out.ret = Json(b).val)
      /\ (b # <<>> /\ ~Json(b).ok) => last.out.exc = "JSONDecodeError"

\* publish_data returned an empty mapping for a successful, empty response.
C9_Witness ==
  /\ last.op = "publish_data"
  /\ last.response = [status |-> 200, body |-> <<>>]
  /\ last.out = Returned(EmptyDict)

\* ---- C10 ---------------------------------------------------------
\* C10: subscribe clears the stop signal of its kind before it starts the
\* background unit: when subscribe returns, the signal is clear.
C10_SubscribeReturnsWithSignalClear ==
  [][\A k \in Kinds :
       (nthreads' = nthreads + 1 /\ threadRef'[k] = nthreads')
         => ~event'[k]]_vars

\* ---- C11 ---------------------------------------------------------
\* C11: the stop signal is checked after the GET has returned and before any
\* status handling: when the signal is set at that check the loop leaves by
\* break whatever the status of the response, without a callback and without
\* an exception; and an unsubscribe moves no loop, so that a GET in flight
\* stays in flight until its response arrives.
C11_StopCheckedFirst ==
  [][/\ \A t \in Threads :
          (pc[t] = "check" /\ event[kindOf[t]] /\ pc'[t] # "check")
            => (/\ pc'[t] = "exit"
                /\ how'[t] = "stop"
                /\ cblog' = cblog)
     /\ (unsubs' = unsubs + 1) => (pc' = pc /\ resp' = resp /\ issued' = issued)
     /\ \A t \in Threads :
          (pc[t] = "wait" /\ pc'[t] # "wait")
            => (pc'[t] = "check" /\ resp'[t].status \in PollStatuses)]_vars

\* A loop was told to stop while its GET was in flight, the GET was answered
\* with an error status after that, and the loop left by break.
C11_Witness ==
  \E t \in Threads :
    /\ pc[t] = "exit"
    /\ how[t] = "stop"
    /\ resp[t].status = 500
    /\ resp[t].late

\* ---- C12 ---------------------------------------------------------
\* C12: a loop leaves by break only on an observed stop signal or on a 408
\* with a configured timeout, and on every such exit it clears the stop
\* signal of its kind before its thread ends; the signal of a kind becomes
\* set by an unsubscribe call only. So once a loop has left by break and no
\* unsubscribe has been called since, the signal of its kind is clear.
C12_BreakClearsSignal ==
  [][/\ \A t \in Threads :
          /\ (pc'[t] = "exit" /\ pc[t] # "exit")
               => (pc[t] = "check" /\ how'[t] \in {"stop", "timeout"})
          /\ (pc[t] = "exit" /\ pc'[t] # "exit")
               => (pc'[t] = "done" /\ ~event'[kindOf[t]])
          /\ (pc'[t] = "done") => (pc[t] \in {"exit", "done"})
     /\ \A k \in Kinds :
          (~event[k] /\ event'[k]) => unsubs' = unsubs + 1]_vars

\* A loop was stopped by an unsubscribe, left by break and ended, and the
\* stop signal that the unsubscribe had set is clear again.
C12_Witness ==
  \E t \in Threads :
    /\ pc[t] = "done"
    /\ how[t] = "stop"
    /\ stopReq[t]
    /\ ~event[kindOf[t]]

\* ---- C13 ---------------------------------------------------------
\* C13: a fatal error in a poll loop, that is an error status outside the
\* handled 408 and 504 cases or an exception raised by the callback, ends
\* that loop and nothing else: no callback is invoked for the response with
\* the error status, the loop issues no GET and delivers nothing afterwards,
\* the step that ends it changes no stop signal, no stored thread and no
\* other loop, and nothing is handed to a synchronous call.
C13_FatalErrorEndsOnlyItsLoop ==
  [][\A t \in Threads :
       LET k == kindOf[t] IN
       /\ (/\ pc[t] = "check" /\ pc'[t] # "check"
           /\ RaiseForStatus(resp[t].status) # "none"
           /\ resp[t].status # 504
           /\ ~(resp[t].status = 408 /\ Truthy(timeoutOf[t])))
            => (/\ cblog' = cblog
                /\ IF event[k]
                   THEN pc'[t] = "exit" /\ how'[t] = "stop"
                   ELSE pc'[t] = "dead" /\ how'[t] = "HTTPError")
       /\ (pc[t] = "callback" /\ pc'[t] = "dead")
            => (how'[t] = "CallbackError" /\ cblog' = cblog)
       /\ (pc'[t] = "dead" /\ pc[t] # "dead")
            => (/\ \A u \in Threads \ {t} : pc'[u] = pc[u] /\ resp'[u] = resp[u]
                /\ event' = event
                /\ threadRef' = threadRef
                /\ issued' = issued
                /\ last' = last)
       /\ (pc[t] = "dead")
            => (/\ pc'[t] = "dead"
                /\ how'[t] = how[t]
                /\ (cblog'[k] # cblog[k]
                      => cblog'[k][Len(cblog'[k])].thread # t))]_vars

\* A loop has died of a 500 while a loop of the other kind was subscribed;
\* the other loop received a later response and is delivering it.
C13_Witness ==
  \E t, u \in Threads :
    /\ pc[t] = "dead"
    /\ how[t] = "HTTPError"
    /\ resp[t].status = 500
    /\ kindOf[u] # kindOf[t]
    /\ pc[u] = "callback"
    /\ resp[u].seq > resp[t].seq

\* ---- C14 ---------------------------------------------------------
\* C14: an unsubscribe for one kind sets the stop signal of that kind and
\* changes nothing else: no loop moves (the call does not wait for one to
\* end), the GETs in flight, the stored threads and the other kind's signal
\* are as before; and a loop leaves on a stop signal only when the signal of
\* its own kind is set, so an unsubscribe never stops the other kind's loop.
C14_UnsubscribeFrame ==
  [][/\ (unsubs' = unsubs + 1)
          => \E k \in Kinds :
               /\ event' = [event EXCEPT ![k] = TRUE]
               /\ \A t \in Threads :
                    (stopReq'[t] /\ ~stopReq[t]) => kindOf[t] = k
               /\ pc' = pc
               /\ resp' = resp
               /\ issued' = issued
               /\ threadRef' = threadRef
               /\ nthreads' = nthreads
               /\ kindOf' = kindOf
               /\ timeoutOf' = timeoutOf
               /\ cblog' = cblog
     /\ \A t \in Threads :
          (pc[t] = "check" /\ pc'[t] = "exit" /\ how'[t] = "stop")
            => event[kindOf[t]]]_vars

\* After an unsubscribe for one kind: its loop is still running with the
\* signal set, while the loop of the other kind, whose signal is clear, is
\* delivering a response.
C14_Witness ==
  \E t, u \in Threads :
    /\ Running(t)
    /\ stopReq[t]
    /\ event[kindOf[t]]
    /\ kindOf[u] # kindOf[t]
    /\ pc[u] = "callback"
    /\ ~stopReq[u]
    /\ ~event[kindOf[u]]

\* ---- C15 ---------------------------------------------------------
\* C15: an unsubscribe called while no loop of its kind is running leaves
\* the stop signal set, and that stale signal does not reach a later
\* subscription: the new loop clears it before its first GET, and a loop
\* leaves on a stop signal only if an unsubscribe of its kind was called
\* after its subscribe; until then it ends only by a 408 with a timeout or
\* by an error.
C15_StaleSignalIgnored ==
  /\ \A t \in Threads :
       (pc[t] \in {"exit", "done"} /\ how[t] = "stop") => stopReq[t]
  /\ \A t \in Threads :
       (Running(t) /\ pc[t] # "clear" /\ ~stopReq[t]) => ~event[kindOf[t]]
  /\ \A t \in Threads :
       (pc[t] \in {"exit", "done", "dead"} /\ ~stopReq[t])
         => how[t] \in {"timeout", "HTTPError", "CallbackError"}

\* The one unsubscribe of the run came before the one subscribe, for the
\* same kind: the loop has cleared the stale signal and is delivering a
\* response.
C15_Witness ==
  /\ unsubs = 1
  /\ nthreads = 1
  /\ pc[1] = "callback"
  /\ ~stopReq[1]
  /\ \A k \in Kinds : ~event[k]

\* ---- C16 ---------------------------------------------------------
\* C16: a loop subscribed with no timeout, or with the falsy timeout 0, sends
\* no timeout query parameter, and a 408 it receives while the stop signal is
\* clear is not an end of subscription: raise_for_status raises, the loop
\* ends by the exception, no callback is invoked, and the stop signal is not
\* cleared by the loop, neither in that step nor later.
C16_408WithoutTimeoutIsError ==
  [][\A t \in Threads :
       (timeoutOf[t] \in {<<>>, <<0>>}) =>
         /\ (pc[t] = "get" /\ pc'[t] # "get") => Params(timeoutOf[t]) = <<>>
         /\ (/\ pc[t] = "check" /\ pc'[t] # "check"
             /\ resp[t].status = 408
             /\ ~event[kindOf[t]])
              => (/\ pc'[t] = "dead"
                  /\ how'[t] = "HTTPError"
                  /\ cblog' = cblog
                  /\ event' = event)
         /\ (pc[t] = "dead") => (pc'[t] = "dead" /\ how'[t] = how[t])]_vars

\* A loop subscribed with timeout 0 has died of a 408; an unsubscribe called
\* after that left the stop signal set, and the dead loop does not clear it.
C16_Witness ==
  \E t \in Threads :
    /\ timeoutOf[t] = <<0>>
    /\ pc[t] = "dead"
    /\ how[t] = "HTTPError"
    /\ resp[t].status = 408
    /\ ~resp[t].late
    /\ event[kindOf[t]]
    /\ RunningOf(kindOf[t]) = {}

\* ---- C17 ---------------------------------------------------------
\* C17: when the caller subscribes to a kind only while no loop of that kind
\* is running, every reachable state has at most one running loop per kind,
\* the running loop is the thread stored for the kind, and the stored thread
\* is always the one started last for the kind.
C17_OneLoopWhenSubscribedIdle ==
  \A k \in Kinds :
    /\ Cardinality(RunningOf(k)) <= 1
    /\ RunningOf(k) \subseteq {threadRef[k]}
    /\ \A t \in 1..nthreads :
         kindOf[t] = k => (threadRef[k] >= t /\ kindOf[threadRef[k]] = k)

\* The first loop of a kind died of an error status, the caller subscribed
\* again afterwards, and the second loop, the stored one, is polling alone.
C17_Witness ==
  \E k \in Kinds :
    /\ nthreads = 2
    /\ kindOf[1] = k /\ kindOf[2] = k
    /\ pc[1] = "dead" /\ how[1] = "HTTPError"
    /\ pc[2] = "wait"
    /\ threadRef[k] = 2

====
